---- MODULE Spec2Model ----
(***************************************************************************)
(* PG Atlas SBOM ingestion: the admission boundary of POST /ingest/sbom.   *)
(*                                                                         *)
(*   pg_atlas/auth/oidc.py        verify_github_oidc_token, _get_jwks_client*)
(*   pg_atlas/ingestion/spdx.py   _unwrap_github_api_envelope,              *)
(*                                parse_and_validate_spdx                   *)
(*   pg_atlas/ingestion/queue.py  queue_sbom                                *)
(*   pg_atlas/routers/ingestion.py ingest_sbom                              *)
(*                                                                         *)
(* Spec: one request is served at a time (verify, then the handler body);  *)
(* the JWKS cache and the clock persist between requests.                  *)
(* SpecConc: two verifications interleaved at their cache reads and writes.*)
(***************************************************************************)
EXTENDS Integers, Sequences, FiniteSets, TLC

\* ------------------------------------------------------------------ bounds
MaxTicks == 2      \* the clock advances at most this many times
MaxPkgs  == 2      \* longest package list of a generated document
MaxDepth == 2      \* deepest nesting of "sbom" mappings in a generated body

\* --------------------------------------------------------------- constants
GITHUB_OIDC_ISSUER == "https://token.actions.githubusercontent.com"
GITHUB_JWKS_URL    == "https://token.actions.githubusercontent.com/.well-known/jwks"
API_URL            == "https://test.pg-atlas.example"
JWKS_CACHE_TTL_SECONDS == 3600
JWKS_CACHE_MAXSIZE     == 4
JWK_SET_LIFESPAN       == 300   \* PyJWKClient's own key-set lifespan (its default)

\* One clock step; half a TTL, so that an entry is seen below, at and past
\* its time-to-live, and a token before, at and past its expiry.
TickSeconds == JWKS_CACHE_TTL_SECONDS \div 2

\* Option values: <<>> is "absent" (None / key not in dict), <<v>> is v.
None    == <<>>
Some(v) == <<v>>
IsSome(o) == Len(o) = 1
Get(o)  == o[1]

\* =====================================================================
\* Tokens and Authorization headers (the inputs of the verifier)
\* =====================================================================
OTHER_ISSUER == "https://evil.example"
OTHER_URL    == "https://other.example"

StrAud(s)   == [list |-> FALSE, vals |-> <<s>>]
ListAud(ss) == [list |-> TRUE,  vals |-> ss]

\* Key-IDs published by the issuer, and the ones a token may declare.
JwksKids  == {"k1"}
TokenKids == {"k1", "k9"}

\* Who produced the signature bytes: the issuer's private key for a key-ID,
\* an HMAC keyed with the (public) key material, or nobody.
RsaSig(k)  == [scheme |-> "rsa",  key |-> k]
HmacSig(k) == [scheme |-> "hmac", key |-> k]
BadSig     == [scheme |-> "none", key |-> ""]
Signatures == {RsaSig("k1"), HmacSig("k1"), BadSig}

\* exp / nbf combinations carried by generated tokens: no expiry; expiry one
\* clock step after start; the same with a not-before two steps after start;
\* expiry after the clock's last step.
TimeClaims == { [exp |-> None,              nbf |-> None],
                [exp |-> Some(TickSeconds), nbf |-> None],
                [exp |-> Some(TickSeconds), nbf |-> Some(2 * TickSeconds)],
                [exp |-> Some((MaxTicks + 1) * TickSeconds), nbf |-> None] }

Payloads ==
    { [exp |-> tc.exp, nbf |-> tc.nbf, iss |-> i, aud |-> a,
       repository |-> r, actor |-> ac] :
        tc \in TimeClaims,
        i  \in {Some(GITHUB_OIDC_ISSUER), Some(OTHER_ISSUER)},
        a  \in {None, Some(StrAud(API_URL)), Some(StrAud(OTHER_URL)),
                Some(ListAud(<<OTHER_URL, API_URL>>))},
        r  \in {None, Some("acme/widget"), Some("test-org/test-repo")},
        ac \in {None, Some("bot")} }

EmptyPayload == [exp |-> None, nbf |-> None, iss |-> None, aud |-> None,
                 repository |-> None, actor |-> None]

\* form "jwt": three decodable segments; "empty": the empty string;
\* "garbage": text from which no header can be decoded.
JwtTokens ==
    { [form |-> "jwt", alg |-> al, kid |-> k, sig |-> s, payload |-> p] :
        al \in {"RS256", "HS256"}, k \in TokenKids, s \in Signatures, p \in Payloads }
EmptyToken   == [form |-> "empty",   alg |-> "", kid |-> "", sig |-> BadSig, payload |-> EmptyPayload]
GarbageToken == [form |-> "garbage", alg |-> "", kid |-> "", sig |-> BadSig, payload |-> EmptyPayload]
Tokens == JwtTokens \cup {EmptyToken, GarbageToken}

GoodToken == [form |-> "jwt", alg |-> "RS256", kid |-> "k1", sig |-> RsaSig("k1"),
              payload |-> [exp |-> Some(TickSeconds), nbf |-> None,
                           iss |-> Some(GITHUB_OIDC_ISSUER), aud |-> Some(StrAud(API_URL)),
                           repository |-> Some("acme/widget"), actor |-> Some("bot")]]

\* Header text is scheme characters followed by the token's text.
BEARER_PREFIX == <<"B","e","a","r","e","r"," ">>
OtherSchemes == { <<>>,
                  <<"B","e","a","r","e","r">>,
                  <<"b","e","a","r","e","r"," ">>,
                  <<" ","B","e","a","r","e","r"," ">>,
                  <<"B","a","s","i","c"," ">> }

\* An Authorization header: absent, or text = scheme \o text of the token.
NoHeader == [present |-> FALSE, scheme |-> <<>>, token |-> EmptyToken]
Headers ==
    {NoHeader}
    \cup { [present |-> TRUE, scheme |-> BEARER_PREFIX, token |-> t] : t \in Tokens }
    \cup { [present |-> TRUE, scheme |-> s, token |-> t] :
             s \in OtherSchemes, t \in {EmptyToken, GarbageToken, GoodToken} }

\* The first characters of the header text: a token's text is abbreviated
\* to one character that is not part of any scheme.
TokenText(t)  == IF t.form = "empty" THEN <<>> ELSE <<"#">>
HeaderText(h) == h.scheme \o TokenText(h.token)

\* =====================================================================
\* HTTP responses
\* =====================================================================
Response(st, det, msgs, repo, n) ==
    [status |-> st, detail |-> det, messages |-> msgs, repository |-> repo, package_count |-> n]
Err(st, det) == Response(st, det, {}, "", 0)

MSG_401     == "Missing or malformed Authorization header. Expected: Bearer <oidc-token>"
MSG_KEY     == "Unable to retrieve or select JWKS signing key."
MSG_EXPIRED == "OIDC token has expired."
MSG_INVALID == "OIDC token validation failed: "
MSG_SPDX    == "Invalid SPDX 2.3 document."
MSG_PARSE   == "Could not parse SPDX document: "

\* =====================================================================
\* The JWKS cache: cachetools.TTLCache(maxsize=4, ttl=JWKS_CACHE_TTL_SECONDS)
\* An entry is [key, client, expires]; a client is the PyJWKClient object,
\* [created, fetched]: fetched is the time its key set was fetched, -1 if
\* it holds none.
\* =====================================================================
NewClient(t) == [created |-> t, fetched |-> 0 - 1]

\* Faulty variant: an entry is still returned at the moment its time-to-live ends.
CacheGet_Inclusive(cache, key, t) ==
    LET hit == {e \in cache : e.key = key /\ t <= e.expires}
    IN  IF hit = {} THEN None ELSE Some((CHOOSE e \in hit : TRUE).client)

\* TTLCache.get: an entry whose expiry has been reached is treated as missing.
CacheGet(cache, key, t) ==
    LET hit == {e \in cache : e.key = key /\ t < e.expires}
    IN  IF hit = {} THEN None ELSE Some((CHOOSE e \in hit : TRUE).client)

\* Faulty variant: a write keeps the entry already stored under the key.
CacheSet_KeepStored(cache, key, client, t) ==
    LET kept == {e \in cache : t < e.expires}
        room == IF Cardinality(kept) >= JWKS_CACHE_MAXSIZE
                THEN kept \ {CHOOSE e \in kept : \A o \in kept : e.expires <= o.expires}
                ELSE kept
    IN  room \cup {[key |-> key, client |-> client, expires |-> t + JWKS_CACHE_TTL_SECONDS]}

\* TTLCache.__setitem__: purge what expired, replace the key's entry, evict
\* the oldest entry when full, stamp the new entry with now + ttl.
CacheSet(cache, key, client, t) ==
    LET kept == {e \in cache : t < e.expires /\ e.key # key}
        room == IF Cardinality(kept) >= JWKS_CACHE_MAXSIZE
                THEN kept \ {CHOOSE e \in kept : \A o \in kept : e.expires <= o.expires}
                ELSE kept
    IN  room \cup {[key |-> key, client |-> client, expires |-> t + JWKS_CACHE_TTL_SECONDS]}

\* The cached client is an object: what key resolution does to it is seen
\* through the cache entry that holds it.
CacheMutateClient(cache, key, client) ==
    {IF e.key = key THEN [e EXCEPT !.client = client] ELSE e : e \in cache}

\* Faulty variant: a client is created and stored on every call.
GetJwksClient_AlwaysNew(cache, t) ==
    [client |-> NewClient(t),
     cache  |-> CacheSet(cache, GITHUB_JWKS_URL, NewClient(t), t)]

\* _get_jwks_client: [client, cache] after the lookup.
GetJwksClient(cache, t) ==
    LET cached == CacheGet(cache, GITHUB_JWKS_URL, t)
    IN  IF IsSome(cached)
        THEN [client |-> Get(cached), cache |-> cache]
        ELSE [client |-> NewClient(t),
              cache  |-> CacheSet(cache, GITHUB_JWKS_URL, NewClient(t), t)]

\* =====================================================================
\* Key resolution: PyJWKClient.get_signing_key_from_jwt
\* =====================================================================
\* What a fetch of the JWKS endpoint can do.
FetchOutcomes == {"ok", "unreachable", "timeout", "malformed"}
\* Why key resolution failed (what the warning log records).
FailureCauses == {"unreachable", "timeout", "malformed", "kid_not_found", "undecodable"}

JwkSetCached(client, t) ==
    client.fetched >= 0 /\ ~(t > client.fetched + JWK_SET_LIFESPAN)

\* fetch_data: the key set is stored on success and dropped on failure.
FetchData(client, t, f) ==
    IF f = "ok" THEN [client EXCEPT !.fetched = t] ELSE [client EXCEPT !.fetched = 0 - 1]

\* Faulty variant: when the key-ID is not published, the first published key is used.
GetSigningKey_FirstKey(client, kid, t, f) ==
    LET fetch1 == ~(client.fetched >= 0 /\ ~(t > client.fetched + JWK_SET_LIFESPAN))
        c1     == IF fetch1 /\ f = "ok" THEN [client EXCEPT !.fetched = t]
                  ELSE IF fetch1 THEN [client EXCEPT !.fetched = 0 - 1] ELSE client
    IN  IF fetch1 /\ f # "ok" THEN [key |-> None, cause |-> f, client |-> c1]
        ELSE [key |-> Some(IF kid \in JwksKids THEN kid ELSE CHOOSE k \in JwksKids : TRUE),
              cause |-> "none", client |-> c1]

\* get_signing_key: use the held key set or fetch; when the key-ID is not in
\* it, refresh once and look again. f is what the JWKS endpoint does while
\* this request is verified, should it be fetched.
GetSigningKey(client, kid, t, f) ==
    LET fetch1 == ~JwkSetCached(client, t)
        c1     == IF fetch1 THEN FetchData(client, t, f) ELSE client
        c2     == FetchData(c1, t, f)
    IN  IF fetch1 /\ f # "ok" THEN [key |-> None, cause |-> f, client |-> c1]
        ELSE IF kid \in JwksKids THEN [key |-> Some(kid), cause |-> "none", client |-> c1]
        ELSE IF f # "ok" THEN [key |-> None, cause |-> f, client |-> c2]
        ELSE [key |-> None, cause |-> "kid_not_found", client |-> c2]

\* Faulty variant: a token with no readable key-ID is given the first published
\* key, and is left to jwt.decode to reject.
GetSigningKeyFromJwt_AnyKey(client, token, t, f) ==
    IF token.form # "jwt"
    THEN [key |-> Some(CHOOSE k \in JwksKids : TRUE), cause |-> "none", client |-> client]
    ELSE GetSigningKey(client, token.kid, t, f)

\* get_signing_key_from_jwt: the token's header is decoded first; a token
\* with no decodable header fails before any key set is looked at.
GetSigningKeyFromJwt(client, token, t, f) ==
    IF token.form # "jwt"
    THEN [key |-> None, cause |-> "undecodable", client |-> client]
    ELSE GetSigningKey(client, token.kid, t, f)

\* =====================================================================
\* jwt.decode(token, signing_key, algorithms=["RS256"], audience=API_URL,
\*            issuer=GITHUB_OIDC_ISSUER, options={"require": [...]})
\* =====================================================================
ALGORITHMS == {"RS256"}
REQUIRED   == <<"exp", "iss", "aud", "repository", "actor">>

HasClaim(p, c) ==
    CASE c = "exp" -> IsSome(p.exp)
      [] c = "iss" -> IsSome(p.iss)
      [] c = "aud" -> IsSome(p.aud)
      [] c = "repository" -> IsSome(p.repository)
      [] c = "actor" -> IsSome(p.actor)

MissingClaims(p) == {i \in 1..Len(REQUIRED) : ~HasClaim(p, REQUIRED[i])}

\* The key is a PyJWK: the signature is checked with the key's own (RSA)
\* algorithm, so only the issuer's RSA signature for that key verifies.
VerifySignature(token, key) == token.sig = RsaSig(key)

AudienceMatches(aud, audience) ==
    \E i \in 1..Len(aud.vals) : aud.vals[i] = audience

Decoded(p)    == [ok |-> TRUE,  exc |-> "", claims |-> p]
DecodeErr(x)  == [ok |-> FALSE, exc |-> x,  claims |-> EmptyPayload]

\* Faulty variant: the audience is not verified (no audience= argument).
JwtDecode_NoAudience(token, key, t) ==
    LET p == token.payload IN
    IF token.form # "jwt" THEN DecodeErr("DecodeError")
    ELSE IF token.alg \notin ALGORITHMS THEN DecodeErr("InvalidAlgorithmError")
    ELSE IF ~VerifySignature(token, key) THEN DecodeErr("InvalidSignatureError")
    ELSE IF MissingClaims(p) # {} THEN DecodeErr("MissingRequiredClaimError")
    ELSE IF IsSome(p.nbf) /\ Get(p.nbf) > t THEN DecodeErr("ImmatureSignatureError")
    ELSE IF Get(p.exp) <= t THEN DecodeErr("ExpiredSignatureError")
    ELSE IF Get(p.iss) # GITHUB_OIDC_ISSUER THEN DecodeErr("InvalidIssuerError")
    ELSE Decoded(p)

\* Faulty variant: the repository and actor claims are not required.
JwtDecode_NoRequire(token, key, t) ==
    LET p == token.payload IN
    IF token.form # "jwt" THEN DecodeErr("DecodeError")
    ELSE IF token.alg \notin ALGORITHMS THEN DecodeErr("InvalidAlgorithmError")
    ELSE IF ~VerifySignature(token, key) THEN DecodeErr("InvalidSignatureError")
    ELSE IF ~(IsSome(p.exp) /\ IsSome(p.iss) /\ IsSome(p.aud))
         THEN DecodeErr("MissingRequiredClaimError")
    ELSE IF IsSome(p.nbf) /\ Get(p.nbf) > t THEN DecodeErr("ImmatureSignatureError")
    ELSE IF Get(p.exp) <= t THEN DecodeErr("ExpiredSignatureError")
    ELSE IF Get(p.iss) # GITHUB_OIDC_ISSUER THEN DecodeErr("InvalidIssuerError")
    ELSE IF ~AudienceMatches(Get(p.aud), API_URL) THEN DecodeErr("InvalidAudienceError")
    ELSE Decoded(p)

\* Faulty variant: the algorithm is taken from the token's header (no algorithms=
\* restriction, key material used as the header's algorithm asks), so an
\* HMAC keyed with the public key verifies.
JwtDecode_AlgFromHeader(token, key, t) ==
    LET p == token.payload
        sigok == IF token.alg = "HS256" THEN token.sig = HmacSig(key)
                 ELSE token.sig = RsaSig(key)
    IN
    IF token.form # "jwt" THEN DecodeErr("DecodeError")
    ELSE IF ~sigok THEN DecodeErr("InvalidSignatureError")
    ELSE IF MissingClaims(p) # {} THEN DecodeErr("MissingRequiredClaimError")
    ELSE IF IsSome(p.nbf) /\ Get(p.nbf) > t THEN DecodeErr("ImmatureSignatureError")
    ELSE IF Get(p.exp) <= t THEN DecodeErr("ExpiredSignatureError")
    ELSE IF Get(p.iss) # GITHUB_OIDC_ISSUER THEN DecodeErr("InvalidIssuerError")
    ELSE IF ~AudienceMatches(Get(p.aud), API_URL) THEN DecodeErr("InvalidAudienceError")
    ELSE Decoded(p)

JwtDecode(token, key, t) ==
    LET p == token.payload IN
    IF token.form # "jwt" THEN DecodeErr("DecodeError")
    ELSE IF token.alg \notin ALGORITHMS THEN DecodeErr("InvalidAlgorithmError")
    ELSE IF ~VerifySignature(token, key) THEN DecodeErr("InvalidSignatureError")
    ELSE IF MissingClaims(p) # {} THEN DecodeErr("MissingRequiredClaimError")
    ELSE IF IsSome(p.nbf) /\ Get(p.nbf) > t THEN DecodeErr("ImmatureSignatureError")
    ELSE IF Get(p.exp) <= t THEN DecodeErr("ExpiredSignatureError")
    ELSE IF Get(p.iss) # GITHUB_OIDC_ISSUER THEN DecodeErr("InvalidIssuerError")
    ELSE IF ~AudienceMatches(Get(p.aud), API_URL) THEN DecodeErr("InvalidAudienceError")
    ELSE Decoded(p)

\* oidc.py:82  not authorization or not authorization.startswith("Bearer ")
StartsWith(s, prefix) == Len(s) >= Len(prefix) /\ SubSeq(s, 1, Len(prefix)) = prefix

\* Faulty variant: the scheme is compared without regard to case.
Lower(c) == IF c = "B" THEN "b" ELSE c
HeaderRejected_IgnoreCase(h) ==
    \/ ~h.present
    \/ HeaderText(h) = <<>>
    \/ ~StartsWith([i \in 1..Len(HeaderText(h)) |-> Lower(HeaderText(h)[i])],
                   [i \in 1..Len(BEARER_PREFIX) |-> Lower(BEARER_PREFIX[i])])
HeaderRejected(h) ==
    ~h.present \/ HeaderText(h) = <<>> \/ ~StartsWith(HeaderText(h), BEARER_PREFIX)

\* oidc.py:89  authorization.removeprefix("Bearer ")
RemovePrefix(h) == IF h.scheme = BEARER_PREFIX THEN h.token ELSE GarbageToken

\* Faulty variant: the caught exception is put in the detail, as it is for jwt.decode.
KeyResolutionResponse_Leaky(cause) == Err(403, <<MSG_KEY, cause>>)

\* Faulty variant: an expired token gets the generic validation-failed response.
DecodeErrorResponse_Generic(x) == Err(403, <<MSG_INVALID, x>>)

\* oidc.py:94-99: one response for every failure of key resolution.
KeyResolutionResponse(cause) == Err(403, <<MSG_KEY>>)

\* oidc.py:110-120: the response to a jwt.decode error.
DecodeErrorResponse(exc) ==
    IF exc = "ExpiredSignatureError" THEN Err(403, <<MSG_EXPIRED>>)
    ELSE Err(403, <<MSG_INVALID, exc>>)

\* verify_github_oidc_token: claims on success, else the HTTPException's
\* response; with the cache as the call leaves it and the exception
\* caught on the way ("none" when there was none).
VerifyGithubOidcToken(h, cache, t, f) ==
    IF HeaderRejected(h)
    THEN [claims |-> None, response |-> Some(Err(401, <<MSG_401>>)),
          cache |-> cache, exc |-> "none", decoded |-> FALSE]
    ELSE
      LET token == RemovePrefix(h)
          gc    == GetJwksClient(cache, t)
          kr    == GetSigningKeyFromJwt(gc.client, token, t, f)
          c2    == CacheMutateClient(gc.cache, GITHUB_JWKS_URL, kr.client)
      IN  IF ~IsSome(kr.key)
          THEN [claims |-> None, response |-> Some(KeyResolutionResponse(kr.cause)),
                cache |-> c2, exc |-> kr.cause, decoded |-> FALSE]
          ELSE
            LET d == JwtDecode(token, Get(kr.key), t)
            IN  IF d.ok
                THEN [claims |-> Some(d.claims), response |-> None,
                      cache |-> c2, exc |-> "none", decoded |-> TRUE]
                ELSE [claims |-> None, response |-> Some(DecodeErrorResponse(d.exc)),
                      cache |-> c2, exc |-> d.exc, decoded |-> TRUE]

\* =====================================================================
\* Request bodies: JSON values and their bytes
\* =====================================================================
\* A JSON value is a number, an array, or an object. Of an object the model
\* keeps which SPDX top-level fields it has, its "packages" list (each entry
\* well-formed or not) and its "sbom" member, if any.
SpdxFields == {"spdxVersion", "SPDXID", "documentNamespace", "name", "creationInfo"}

JNum == [t |-> "num", fields |-> {}, pkgs |-> <<>>, sbom |-> None]
JArr == [t |-> "arr", fields |-> {}, pkgs |-> <<>>, sbom |-> None]
JObj(f, p, s) == [t |-> "obj", fields |-> f, pkgs |-> p, sbom |-> s]

FieldChoices == {SpdxFields, {}} \cup {SpdxFields \ {f} : f \in SpdxFields}
OkPkgs(n)    == [i \in 1..n |-> "ok"]
PkgChoices   == {OkPkgs(n) : n \in 0..MaxPkgs} \cup {<<"bad">>}

\* Objects with no nested mapping under "sbom".
FlatObjs == {JObj(f, p, s) : f \in FieldChoices, p \in PkgChoices, s \in {None, Some(JNum)}}

\* Objects holding a mapping under "sbom": a bare envelope, a complete
\* document that also has an "sbom" member, or a document without a name
\* that has one.
Envelope(v)  == JObj({}, <<>>, Some(v))
DocWith(v)   == JObj(SpdxFields, OkPkgs(1), Some(v))
NamelessWith(v) == JObj(SpdxFields \ {"name"}, OkPkgs(1), Some(v))

RECURSIVE ObjsUpTo(_)
ObjsUpTo(d) ==
    IF d = 0 THEN FlatObjs
    ELSE LET inner == ObjsUpTo(d - 1)
         IN  inner \cup {Envelope(v) : v \in inner} \cup {DocWith(v) : v \in inner}
                   \cup {NamelessWith(v) : v \in inner}

JsonValues == {JNum, JArr} \cup ObjsUpTo(MaxDepth)

\* Bytes. kind "json": a serialisation of v, in the layout json.dumps gives
\* ("dumps"), in another UTF-8 layout ("compact"), or in UTF-16 ("utf16");
\* "garbage": not JSON; "badutf8": not decodable text; "deep": brackets
\* nested beyond the interpreter's recursion limit.
Styles == {"dumps", "compact", "utf16"}
JsonBytes(style, v) == [kind |-> "json", style |-> style, v |-> v]
OtherBytes(k)       == [kind |-> k, style |-> "", v |-> JNum]
Bodies ==
    {JsonBytes(st, v) : st \in Styles, v \in JsonValues}
    \cup {OtherBytes(k) : k \in {"garbage", "badutf8", "deep"}}

\* json.loads(raw): bytes in UTF-8 or UTF-16 are both decoded.
JsonLoads(raw) ==
    CASE raw.kind = "json"    -> [exc |-> "none", v |-> raw.v]
      [] raw.kind = "garbage" -> [exc |-> "JSONDecodeError", v |-> JNum]
      [] raw.kind = "badutf8" -> [exc |-> "UnicodeDecodeError", v |-> JNum]
      [] raw.kind = "deep"    -> [exc |-> "RecursionError", v |-> JNum]

\* json.dumps(v).encode()
JsonDumpsEncode(v) == JsonBytes("dumps", v)

\* Faulty variant: the envelope is never stripped.
UnwrapGithubApiEnvelope_Never(raw) ==
    IF raw.kind = "deep" THEN [exc |-> "RecursionError", out |-> raw]
    ELSE [exc |-> "none", out |-> raw]

\* _unwrap_github_api_envelope: [exc, out]; exc is the exception that
\* leaves the function, "none" when it returns out.
UnwrapGithubApiEnvelope(raw) ==
    LET l == JsonLoads(raw) IN
    IF l.exc \in {"JSONDecodeError", "UnicodeDecodeError"} THEN [exc |-> "none", out |-> raw]
    ELSE IF l.exc # "none" THEN [exc |-> l.exc, out |-> raw]
    ELSE IF l.v.t = "obj" /\ IsSome(l.v.sbom) /\ Get(l.v.sbom).t = "obj"
         THEN [exc |-> "none", out |-> JsonDumpsEncode(Get(l.v.sbom))]
    ELSE [exc |-> "none", out |-> raw]

\* spdx_tools parse_file on the temporary .spdx.json file: the file is read
\* as UTF-8 JSON, then the top-level fields and each package are parsed;
\* members it does not know are ignored.
NoDocument == [fields |-> {}, packages |-> <<>>]
ParserMessages(v) ==
    LET missing == {f \in SpdxFields : f \notin v.fields}
        badpkgs == {i \in 1..Len(v.pkgs) : v.pkgs[i] # "ok"}
    IN  missing \cup (IF badpkgs = {} THEN {} ELSE {"packages"})

\* Faulty variant: a document without a name is accepted.
ParseFile_NameOptional(raw) ==
    IF raw.kind = "garbage" THEN [exc |-> "JSONDecodeError", messages |-> {}, document |-> NoDocument]
    ELSE IF raw.kind = "badutf8" THEN [exc |-> "UnicodeDecodeError", messages |-> {}, document |-> NoDocument]
    ELSE IF raw.kind = "deep" THEN [exc |-> "RecursionError", messages |-> {}, document |-> NoDocument]
    ELSE IF raw.style = "utf16" THEN [exc |-> "UnicodeDecodeError", messages |-> {}, document |-> NoDocument]
    ELSE IF raw.v.t # "obj" THEN [exc |-> "AttributeError", messages |-> {}, document |-> NoDocument]
    ELSE IF ParserMessages(raw.v) \ {"name"} # {}
         THEN [exc |-> "SPDXParsingError", messages |-> ParserMessages(raw.v), document |-> NoDocument]
    ELSE [exc |-> "none", messages |-> {},
          document |-> [fields |-> raw.v.fields, packages |-> raw.v.pkgs]]

ParseFile(raw) ==
    IF raw.kind = "garbage" THEN [exc |-> "JSONDecodeError", messages |-> {}, document |-> NoDocument]
    ELSE IF raw.kind = "badutf8" THEN [exc |-> "UnicodeDecodeError", messages |-> {}, document |-> NoDocument]
    ELSE IF raw.kind = "deep" THEN [exc |-> "RecursionError", messages |-> {}, document |-> NoDocument]
    ELSE IF raw.style = "utf16" THEN [exc |-> "UnicodeDecodeError", messages |-> {}, document |-> NoDocument]
    ELSE IF raw.v.t # "obj" THEN [exc |-> "AttributeError", messages |-> {}, document |-> NoDocument]
    ELSE IF ParserMessages(raw.v) # {}
         THEN [exc |-> "SPDXParsingError", messages |-> ParserMessages(raw.v), document |-> NoDocument]
    ELSE [exc |-> "none", messages |-> {},
          document |-> [fields |-> raw.v.fields, packages |-> raw.v.pkgs]]

\* parse_and_validate_spdx: outcome "ok" with a ParsedSbom, outcome
\* "SpdxValidationError" with detail and messages, or the name of any other
\* exception that leaves the function. handed is the bytes given to
\* parse_file, if the function got that far.
ParseResult(o, det, msgs, doc, n, handed) ==
    [outcome |-> o, detail |-> det, messages |-> msgs, document |-> doc,
     package_count |-> n, handed |-> handed]

\* Faulty variant: the packages are counted on the request body as it came,
\* not on the document the parser was handed.
ParseAndValidateSpdx_CountRaw(raw) ==
    LET u == UnwrapGithubApiEnvelope(raw) IN
    IF u.exc # "none" THEN ParseResult(u.exc, <<>>, {}, NoDocument, 0, None)
    ELSE LET r == ParseFile(u.out) IN
         IF r.exc = "SPDXParsingError"
         THEN ParseResult("SpdxValidationError", <<MSG_SPDX>>, r.messages, NoDocument, 0, Some(u.out))
         ELSE IF r.exc # "none"
         THEN ParseResult("SpdxValidationError", <<MSG_PARSE, r.exc>>, {}, NoDocument, 0, Some(u.out))
         ELSE ParseResult("ok", <<>>, {}, r.document, Len(raw.v.pkgs), Some(u.out))

ParseAndValidateSpdx(raw) ==
    LET u == UnwrapGithubApiEnvelope(raw) IN
    IF u.exc # "none" THEN ParseResult(u.exc, <<>>, {}, NoDocument, 0, None)
    ELSE LET r == ParseFile(u.out) IN
         IF r.exc = "SPDXParsingError"
         THEN ParseResult("SpdxValidationError", <<MSG_SPDX>>, r.messages, NoDocument, 0, Some(u.out))
         ELSE IF r.exc # "none"
         THEN ParseResult("SpdxValidationError", <<MSG_PARSE, r.exc>>, {}, NoDocument, 0, Some(u.out))
         ELSE ParseResult("ok", <<>>, {}, r.document, Len(r.document.packages), Some(u.out))

\* Faulty variant: the sink answers with a repository of its own and counts one
\* package more.
QueueSbom_Alters(sbom, claims) ==
    [message |-> "queued", repository |-> "acme/widget",
     package_count |-> sbom.package_count + 1]

\* queue_sbom: the stub sink; returns the 202 payload.
QueueSbom(sbom, claims) ==
    [message |-> "queued", repository |-> Get(claims.repository),
     package_count |-> sbom.package_count]

\* Faulty variant: the submission is queued before the parse result is looked at.
IngestSbom_QueueAlways(raw, claims) ==
    LET sbom == ParseAndValidateSpdx(raw) IN
    [calls |-> <<"parse_and_validate_spdx", "queue_sbom">>, parsed |-> sbom,
     queued |-> <<[sbom |-> sbom, claims |-> claims]>>,
     response |-> IF sbom.outcome = "ok"
                  THEN Response(202, <<"queued">>, {}, Get(claims.repository), sbom.package_count)
                  ELSE Response(422, sbom.detail, sbom.messages, "", 0)]

\* ingest_sbom, the handler body (it runs once the dependency has returned
\* claims): what it calls, what the sink was handed, and the response.
IngestSbom(raw, claims) ==
    LET sbom == ParseAndValidateSpdx(raw) IN
    IF sbom.outcome = "SpdxValidationError"
    THEN [calls |-> <<"parse_and_validate_spdx">>, parsed |-> sbom, queued |-> <<>>,
          response |-> Response(422, sbom.detail, sbom.messages, "", 0)]
    ELSE IF sbom.outcome # "ok"
    THEN [calls |-> <<"parse_and_validate_spdx">>, parsed |-> sbom, queued |-> <<>>,
          response |-> Response(500, <<"Internal Server Error">>, {}, "", 0)]
    ELSE LET result == QueueSbom(sbom, claims) IN
         [calls |-> <<"parse_and_validate_spdx", "queue_sbom">>, parsed |-> sbom,
          queued |-> <<[sbom |-> sbom, claims |-> claims]>>,
          response |-> Response(202, <<result.message>>, {}, result.repository,
                                result.package_count)]

\* =====================================================================
\* The state machine
\* =====================================================================
VARIABLES
    now,            \* the clock, in seconds
    jwks_cache,     \* _jwks_cache: set of [key, client, expires]
    pc,             \* "idle", "authed" (dependency returned claims), "done"
    authorization,  \* the request's Authorization header
    claims,         \* what verify_github_oidc_token returned, if it returned
    verified_at,    \* the clock when the verifier ran
    exc,            \* the exception the verifier caught, "none" if none
    decoded,        \* whether the verifier got as far as jwt.decode
    body,           \* the raw body, once the handler has read it
    parsed,         \* what parse_and_validate_spdx gave, once it ran
    calls,          \* the components run for this request, in order
    queued,         \* what queue_sbom was handed for this request
    response,       \* the response sent, once sent
    inflight,       \* concurrent verifications: each request's position and locals
    clients         \* the PyJWKClient objects concurrent requests constructed

vars == <<now, jwks_cache, pc, authorization, claims, verified_at, exc, decoded,
          body, parsed, calls, queued, response, inflight, clients>>
\* The variables of the request served in one piece.
reqvars == <<pc, authorization, claims, verified_at, exc, decoded,
             body, parsed, calls, queued, response>>

\* Requests verified concurrently, and a request not yet arrived: pc is
\* "none", "lookup", "store", "resolve" or "done"; client names the client
\* object it holds by the request that constructed it.
Requests  == {1, 2}
NoRequest == [pc |-> "none", authorization |-> NoHeader, fetch |-> "ok", client |-> 0,
              missed |-> FALSE, at |-> 0, claims |-> None, response |-> None]
NoClient  == [created |-> 0 - 1, fetched |-> 0 - 1, owner |-> 0]

NoParse == ParseResult("none", <<>>, {}, NoDocument, 0, None)

Init ==
    /\ now = 0
    /\ jwks_cache = {}
    /\ pc = "idle"
    /\ authorization = NoHeader
    /\ claims = None
    /\ verified_at = 0
    /\ exc = "none"
    /\ decoded = FALSE
    /\ body = None
    /\ parsed = NoParse
    /\ calls = <<>>
    /\ queued = <<>>
    /\ response = None
    /\ inflight = [r \in Requests |-> NoRequest]
    /\ clients = [r \in Requests |-> NoClient]

\* Faulty variant: the handler body runs whatever the dependency did.
HandlerRuns_Always(cl) == TRUE

\* claims: Annotated[dict, Depends(verify_github_oidc_token)]: the handler
\* body runs only if the dependency returned; an HTTPException it raised is
\* the response.
HandlerRuns(cl) == IsSome(cl)

\* A request arrives and FastAPI resolves the dependency
\* verify_github_oidc_token; f is what the JWKS endpoint does if it is
\* fetched. The handler body runs only if the dependency returned.
Verify(h, f) ==
    /\ pc = "idle"
    /\ \E r \in {VerifyGithubOidcToken(h, jwks_cache, now, f)} :
       /\ authorization' = h
       /\ claims' = r.claims
       /\ jwks_cache' = r.cache
       /\ exc' = r.exc
       /\ decoded' = r.decoded
       /\ response' = r.response
       /\ pc' = IF HandlerRuns(r.claims) THEN "authed" ELSE "done"
    /\ verified_at' = now
    /\ calls' = <<"verify_github_oidc_token">>
    /\ UNCHANGED <<now, body, parsed, queued, inflight, clients>>

\* The handler body: read the raw body, parse, queue, answer.
Handle(raw) ==
    /\ pc = "authed"
    /\ \E r \in {IngestSbom(raw, Get(claims))} :
       /\ body' = Some(raw)
       /\ parsed' = r.parsed
       /\ calls' = calls \o r.calls
       /\ queued' = r.queued
       /\ response' = Some(r.response)
    /\ pc' = "done"
    /\ UNCHANGED <<now, jwks_cache, authorization, claims, verified_at, exc, decoded,
                   inflight, clients>>

\* The request is over; the next one starts from a clean request state.
Finish ==
    /\ pc = "done"
    /\ pc' = "idle"
    /\ authorization' = NoHeader
    /\ claims' = None
    /\ verified_at' = 0
    /\ exc' = "none"
    /\ decoded' = FALSE
    /\ body' = None
    /\ parsed' = NoParse
    /\ calls' = <<>>
    /\ queued' = <<>>
    /\ response' = None
    /\ UNCHANGED <<now, jwks_cache, inflight, clients>>

\* Time passes between requests.
Tick ==
    /\ pc = "idle"
    /\ now < MaxTicks * TickSeconds
    /\ now' = now + TickSeconds
    /\ UNCHANGED <<jwks_cache, pc, authorization, claims, verified_at, exc, decoded,
                   body, parsed, calls, queued, response, inflight, clients>>

VerifyRequest == pc = "idle"   /\ \E h \in Headers, f \in FetchOutcomes : Verify(h, f)
HandleRequest == pc = "authed" /\ \E raw \in Bodies : Handle(raw)

Next ==
    \/ VerifyRequest
    \/ HandleRequest
    \/ Finish
    \/ Tick

Spec == Init /\ [][Next]_vars

\* =====================================================================
\* Concurrent verifications: verify_github_oidc_token of several requests,
\* interleaved at its reads and writes of _jwks_cache. (The function has no
\* await, so an event loop runs each call in one piece; the interleavings
\* here include those and every finer one.)
\* =====================================================================
\* Tokens presented by concurrent requests: accepted until after the
\* clock's last step; the same with an unpublished key-ID, with a bad
\* signature; one that expires after one step; one that cannot be decoded.
LongToken == [GoodToken EXCEPT !.payload.exp = Some((MaxTicks + 1) * TickSeconds)]
ConcTokens == {LongToken, [LongToken EXCEPT !.kid = "k9"],
               [LongToken EXCEPT !.sig = BadSig], GoodToken, GarbageToken}
ConcHeaders ==
    {NoHeader} \cup {[present |-> TRUE, scheme |-> BEARER_PREFIX, token |-> t] : t \in ConcTokens}
ConcFetchOutcomes == {"ok", "unreachable"}

\* The client a request constructs: a new PyJWKClient, told apart from
\* every other client object by the request that made it.
OwnClient(r, t) ==
    [created |-> NewClient(t).created, fetched |-> NewClient(t).fetched, owner |-> r]

\* The request enters the verifier: the header check (oidc.py:82-87).
Arrive(r, h, f) ==
    /\ inflight[r].pc = "none"
    /\ inflight' = [inflight EXCEPT ![r] =
          IF HeaderRejected(h)
          THEN [NoRequest EXCEPT !.pc = "done", !.authorization = h, !.fetch = f,
                                 !.at = now, !.response = Some(Err(401, <<MSG_401>>))]
          ELSE [NoRequest EXCEPT !.pc = "lookup", !.authorization = h, !.fetch = f,
                                 !.at = now]]
    /\ UNCHANGED <<now, jwks_cache, clients, reqvars>>

\* _get_jwks_client, the read: cached = _jwks_cache.get(GITHUB_JWKS_URL).
Lookup(r) ==
    /\ inflight[r].pc = "lookup"
    /\ \E cached \in {CacheGet(jwks_cache, GITHUB_JWKS_URL, now)} :
          inflight' = [inflight EXCEPT ![r] =
             IF IsSome(cached)
             THEN [inflight[r] EXCEPT !.pc = "resolve", !.client = Get(cached).owner]
             ELSE [inflight[r] EXCEPT !.pc = "store", !.missed = TRUE]]
    /\ UNCHANGED <<now, jwks_cache, clients, reqvars>>

\* _get_jwks_client, the write: client = PyJWKClient(...);
\* _jwks_cache[GITHUB_JWKS_URL] = client.
Store(r) ==
    /\ inflight[r].pc = "store"
    /\ clients' = [clients EXCEPT ![r] = OwnClient(r, now)]
    /\ jwks_cache' = CacheSet(jwks_cache, GITHUB_JWKS_URL, OwnClient(r, now), now)
    /\ inflight' = [inflight EXCEPT ![r] = [inflight[r] EXCEPT !.pc = "resolve", !.client = r]]
    /\ UNCHANGED <<now, reqvars>>

\* The rest of the verifier: get_signing_key_from_jwt on the client this
\* request holds, then jwt.decode. What key resolution does to the client
\* object is seen by whoever holds it: the cache entry, other requests.
Resolve(r) ==
    /\ inflight[r].pc = "resolve"
    /\ LET me    == inflight[r]
           token == RemovePrefix(me.authorization)
       IN  \E kr \in {GetSigningKeyFromJwt(clients[me.client], token, now, me.fetch)} :
             /\ clients' = [clients EXCEPT ![me.client] = kr.client]
             /\ jwks_cache' = {IF e.client.owner = me.client
                               THEN [e EXCEPT !.client = kr.client] ELSE e : e \in jwks_cache}
             /\ inflight' = [inflight EXCEPT ![r] =
                   IF ~IsSome(kr.key)
                   THEN [me EXCEPT !.pc = "done",
                                   !.response = Some(KeyResolutionResponse(kr.cause))]
                   ELSE IF JwtDecode(token, Get(kr.key), now).ok
                   THEN [me EXCEPT !.pc = "done",
                                   !.claims = Some(JwtDecode(token, Get(kr.key), now).claims)]
                   ELSE [me EXCEPT !.pc = "done",
                                   !.response = Some(DecodeErrorResponse(
                                                   JwtDecode(token, Get(kr.key), now).exc))]]
    /\ UNCHANGED <<now, reqvars>>

\* Time passes while no verification is under way.
ConcTick ==
    /\ \A r \in Requests : inflight[r].pc \in {"none", "done"}
    /\ Tick

ArriveRequest == \E r \in Requests : inflight[r].pc = "none" /\
                     \E h \in ConcHeaders, f \in ConcFetchOutcomes : Arrive(r, h, f)
LookupCache   == \E r \in Requests : Lookup(r)
StoreClient   == \E r \in Requests : Store(r)
ResolveAndDecode == \E r \in Requests : Resolve(r)

NextConc ==
    \/ ArriveRequest
    \/ LookupCache
    \/ StoreClient
    \/ ResolveAndDecode
    \/ ConcTick

\* A request that has entered the verifier goes on: nothing in it waits for
\* another request, and the JWKS fetch ends (with a key set or an error).
VerifierStep(r) == Lookup(r) \/ Store(r) \/ Resolve(r)
SpecConc ==
    Init /\ [][NextConc]_vars /\ \A r \in Requests : WF_vars(VerifierStep(r))

\* =====================================================================
\* Properties
\* =====================================================================
Count(seq, x) == Cardinality({i \in 1..Len(seq) : seq[i] = x})

\* C1: for every request the normalizer runs only after the verifier has
\* succeeded for that request, and the sink is invoked exactly once when
\* both the verifier and the normalizer succeeded, never otherwise.
C1_VerifyThenParseThenSink ==
    /\ Count(calls, "parse_and_validate_spdx") > 0 =>
          /\ calls[1] = "verify_github_oidc_token"
          /\ calls[2] = "parse_and_validate_spdx"
          /\ IsSome(claims)
    /\ Count(calls, "queue_sbom") = Len(queued)
    /\ pc = "done" =>
          Len(queued) = IF IsSome(claims) /\ parsed.outcome = "ok" THEN 1 ELSE 0
    /\ pc # "done" => Len(queued) = 0

C1_Witness ==
    /\ pc = "done"
    /\ calls = <<"verify_github_oidc_token", "parse_and_validate_spdx", "queue_sbom">>
    /\ Len(queued) = 1
    /\ Get(response).status = 202

\* C2: a request whose Authorization header is absent, empty, or does not
\* begin with exactly "Bearer " is answered 401, and its body is never read.
BadHeaders ==
    {NoHeader} \cup { [present |-> TRUE, scheme |-> s, token |-> t] :
                        s \in OtherSchemes, t \in Tokens }
C2_BadHeaderIs401 ==
    (pc # "idle" /\ authorization \in BadHeaders) =>
        /\ pc = "done"
        /\ response = Some(Err(401, <<MSG_401>>))
        /\ claims = None
        /\ body = None
        /\ calls = <<"verify_github_oidc_token">>

C2_Witness ==
    /\ pc = "done"
    /\ authorization.present
    /\ authorization.scheme = <<"b","e","a","r","e","r"," ">>
    /\ authorization.token = GoodToken
    /\ Get(response).status = 401

\* ---------------------------------------------------------------------
\* What is true of the presented token, stated on the token itself.
\* ---------------------------------------------------------------------
Tok == authorization.token
BearerJwt ==
    pc # "idle" /\ authorization.present /\ authorization.scheme = BEARER_PREFIX
    /\ Tok.form = "jwt"
KidPublished  == Tok.kid \in JwksKids
DeclaresRS256 == Tok.alg = "RS256"
SignedByKey   == Tok.sig = RsaSig(Tok.kid)
IssuerIsGitHub == Tok.payload.iss = Some(GITHUB_OIDC_ISSUER)
AudienceEquals == Tok.payload.aud = Some(StrAud(API_URL))
AudienceNames  ==
    /\ IsSome(Tok.payload.aud)
    /\ \E i \in 1..Len(Get(Tok.payload.aud).vals) : Get(Tok.payload.aud).vals[i] = API_URL
HasExpiry     == IsSome(Tok.payload.exp)
Unexpired     == HasExpiry /\ Get(Tok.payload.exp) > verified_at
Expired       == HasExpiry /\ Get(Tok.payload.exp) <= verified_at
Mature        == IsSome(Tok.payload.nbf) => Get(Tok.payload.nbf) <= verified_at
HasAttribution == IsSome(Tok.payload.repository) /\ IsSome(Tok.payload.actor)
HasRequired   == HasExpiry /\ IsSome(Tok.payload.iss) /\ IsSome(Tok.payload.aud) /\ HasAttribution

TokenExpiredResponse == Err(403, <<MSG_EXPIRED>>)
DecodeErrors == {"DecodeError", "InvalidAlgorithmError", "InvalidSignatureError",
                 "MissingRequiredClaimError", "ImmatureSignatureError",
                 "ExpiredSignatureError", "InvalidIssuerError", "InvalidAudienceError"}
TokenInvalidResponses == {Err(403, <<MSG_INVALID, x>>) : x \in DecodeErrors \ {"ExpiredSignatureError"}}
IsTokenInvalid == IsSome(response) /\ Get(response) \in TokenInvalidResponses
IsTokenExpired == response = Some(TokenExpiredResponse)
IsKeyResolutionError == response = Some(Err(403, <<MSG_KEY>>))

\* C3 as stated: claims are returned only if the signature, issuer, audience
\* (audience EQUALS API_URL) and expiry checks passed and repository and
\* actor are present.
C3_Original ==
    IsSome(claims) =>
        /\ BearerJwt /\ KidPublished /\ DeclaresRS256 /\ SignedByKey
        /\ IssuerIsGitHub /\ AudienceEquals /\ Unexpired /\ HasAttribution

\* C3 amended: claims are returned only if the signature check, the issuer
\* check, the audience check (the token's audience is API_URL or a list that
\* contains API_URL) and the expiry check (strictly in the future) all passed
\* and repository and actor are present; the object returned is the token's
\* whole payload; otherwise the request is rejected with no claims.
C3_ClaimsOnlyIfAllChecks ==
    /\ IsSome(claims) =>
          /\ BearerJwt /\ KidPublished /\ DeclaresRS256 /\ SignedByKey
          /\ IssuerIsGitHub /\ AudienceNames /\ Unexpired /\ HasAttribution
          /\ Get(claims) = Tok.payload
    /\ (pc # "idle" /\ claims = None) =>
          /\ pc = "done" /\ IsSome(response)
          /\ Get(response).status \in {401, 403}
          /\ calls = <<"verify_github_oidc_token">>

C3_Witness ==
    /\ pc = "authed"
    /\ IsSome(claims)
    /\ Get(Tok.payload.aud).list
    /\ Get(claims).repository = Some("acme/widget")

\* C4: a token (in a well-formed Bearer header) whose key-ID is not in the
\* resolved key set gets the key-resolution 403, and jwt.decode (signature
\* and claim validation) is never attempted for it.
C4_UnknownKidIsKeyResolutionError ==
    (BearerJwt /\ ~KidPublished) =>
        /\ pc = "done"
        /\ IsKeyResolutionError
        /\ ~decoded
        /\ exc \in FailureCauses
        /\ claims = None

C4_Witness ==
    /\ BearerJwt /\ Tok.kid = "k9" /\ SignedByKey = FALSE
    /\ Tok.payload = GoodToken.payload
    /\ exc = "kid_not_found"
    /\ IsKeyResolutionError

\* C5: the response to a key-resolution failure is the same 403, with the
\* same body, for every cause: the response this request got is the one it
\* would have got had any other cause occurred.
C5_KeyResolutionResponseHidesCause ==
    (pc = "done" /\ exc \in FailureCauses) =>
        /\ Get(response).status = 403
        /\ \A c \in FailureCauses : KeyResolutionResponse(c) = Get(response)

C5_Witness ==
    /\ pc = "done" /\ exc = "timeout" /\ Tok = GoodToken
    /\ IsKeyResolutionError

\* C6 as stated: every token correctly signed by a resolved key with
\* exp <= now gets TokenExpired.
C6_Original ==
    (BearerJwt /\ KidPublished /\ decoded /\ SignedByKey /\ Expired) => IsTokenExpired

\* C6 amended: every token that declares RS256, is correctly signed by a
\* resolved key, carries all required claims (exp, iss, aud, repository,
\* actor), is not presented before its not-before time, and has
\* exp <= now gets TokenExpired (403, "OIDC token has expired."), whatever
\* its issuer and audience; that response differs from every TokenInvalid
\* response.
C6_ExpiredIsTokenExpired ==
    /\ (BearerJwt /\ KidPublished /\ decoded /\ DeclaresRS256 /\ SignedByKey
        /\ HasRequired /\ Mature /\ Expired) =>
          /\ IsTokenExpired
          /\ exc = "ExpiredSignatureError"
          /\ claims = None
    /\ \A x \in DecodeErrors \ {"ExpiredSignatureError"} :
          DecodeErrorResponse(x) # DecodeErrorResponse("ExpiredSignatureError")
    /\ IsTokenExpired => ~IsTokenInvalid

C6_Witness ==
    /\ BearerJwt /\ Tok = GoodToken
    /\ verified_at = Get(Tok.payload.exp)
    /\ IsTokenExpired

\* C7 as stated: a token whose audience is not exactly API_URL gets
\* TokenInvalid; TokenExpired is produced only when expiry is the only claim
\* check that fails, any issuer or audience mismatch giving TokenInvalid.
C7_Original ==
    /\ (BearerJwt /\ KidPublished /\ decoded /\ ~AudienceEquals) => IsTokenInvalid
    /\ IsTokenExpired => (IssuerIsGitHub /\ AudienceEquals)

\* C7 amended: a token whose audience is neither API_URL nor a list
\* containing API_URL never yields claims, and gets TokenInvalid when it is
\* otherwise valid. Expiry is checked before issuer and audience: a correctly
\* signed RS256 token with all required claims, not before its not-before
\* time, gets TokenExpired when exp <= now even if its issuer or audience
\* mismatch too, and TokenInvalid for an issuer or audience mismatch when
\* it has not expired.
OtherwiseDecodable ==
    BearerJwt /\ KidPublished /\ decoded /\ DeclaresRS256 /\ SignedByKey
    /\ HasRequired /\ Mature
C7_AudienceMismatch ==
    /\ (BearerJwt /\ ~AudienceNames) => claims = None
    /\ (BearerJwt /\ KidPublished /\ decoded /\ ~AudienceNames) =>
          (IsTokenInvalid \/ IsTokenExpired)
    /\ (OtherwiseDecodable /\ Unexpired /\ IssuerIsGitHub /\ ~AudienceNames) =>
          response = Some(Err(403, <<MSG_INVALID, "InvalidAudienceError">>))
    /\ (OtherwiseDecodable /\ Unexpired /\ ~IssuerIsGitHub) =>
          response = Some(Err(403, <<MSG_INVALID, "InvalidIssuerError">>))
    /\ (OtherwiseDecodable /\ Expired) => IsTokenExpired
    /\ IsTokenExpired => (OtherwiseDecodable /\ Expired)

C7_Witness ==
    /\ OtherwiseDecodable /\ Unexpired /\ IssuerIsGitHub
    /\ Tok.payload.aud = Some(StrAud(OTHER_URL))
    /\ response = Some(Err(403, <<MSG_INVALID, "InvalidAudienceError">>))

\* C8: a token whose header declares an algorithm other than RS256 is
\* rejected and never yields claims, whatever key was resolved for it and
\* however it was signed.
C8_OnlyRS256 ==
    (BearerJwt /\ ~DeclaresRS256) =>
        /\ pc = "done"
        /\ claims = None
        /\ Get(response).status = 403
        /\ decoded => response = Some(Err(403, <<MSG_INVALID, "InvalidAlgorithmError">>))

C8_Witness ==
    /\ BearerJwt /\ KidPublished /\ decoded
    /\ Tok.alg = "HS256" /\ Tok.sig = HmacSig("k1")
    /\ Tok.payload = GoodToken.payload /\ Unexpired
    /\ response = Some(Err(403, <<MSG_INVALID, "InvalidAlgorithmError">>))

\* ---------------------------------------------------------------------
\* The normalizer
\* ---------------------------------------------------------------------
HasBody == pc = "done" /\ IsSome(body)
Raw     == Get(body)
\* The body is the bytes of a document the schema parser accepts as it is.
ValidDocumentBody == HasBody /\ Raw.kind = "json" /\ ParseFile(Raw).exc = "none"
HasSbomMapping(v) == v.t = "obj" /\ IsSome(v.sbom) /\ Get(v.sbom).t = "obj"
\* What the endpoint does with {"sbom": D} for this request's D and claims.
Enveloped == IngestSbom(JsonBytes(Raw.style, Envelope(Raw.v)), Get(claims))
SameOutcomeEnveloped ==
    /\ Enveloped.parsed.outcome = parsed.outcome
    /\ Enveloped.parsed.package_count = parsed.package_count
    /\ Enveloped.parsed.document = parsed.document
    /\ Enveloped.response = Get(response)

\* C9 as stated: for every structurally valid document D, D and {"sbom": D}
\* give the same outcome, package_count, document and response.
C9_Original == ValidDocumentBody => SameOutcomeEnveloped

\* C9 amended: for every structurally valid document D that has no top-level
\* "sbom" member holding a mapping, the bytes of D and the bytes of
\* {"sbom": D} give the same outcome, with identical package_count and
\* equivalent parsed documents, and the endpoint gives the identical
\* response for both bodies. (A valid document that itself has such a member
\* is replaced by that member when sent bare.)
C9_EnvelopeTransparent ==
    (ValidDocumentBody /\ ~HasSbomMapping(Raw.v)) =>
        /\ SameOutcomeEnveloped
        /\ parsed.outcome = "ok"
        /\ Get(response).status = 202

C9_Witness ==
    /\ ValidDocumentBody /\ ~HasSbomMapping(Raw.v)
    /\ Raw.style = "compact"
    /\ Raw.v.pkgs = OkPkgs(MaxPkgs)
    /\ Get(response).status = 202
    /\ Get(response).package_count = MaxPkgs
    /\ Enveloped.response.package_count = MaxPkgs

\* C10: _unwrap_github_api_envelope returns its input unchanged in every
\* case but one, a JSON mapping whose "sbom" member is a mapping, of which
\* it returns that member re-serialised (one level only); so every other
\* input reaches the schema parser as it came.
C10_UnwrapFrame ==
    HasBody =>
        parsed.handed =
            Some(IF Raw.kind = "json" /\ HasSbomMapping(Raw.v)
                 THEN JsonBytes("dumps", Get(Raw.v.sbom))
                 ELSE Raw)

\* ---------------------------------------------------------------------
\* The parsed submission and the accepted response
\* ---------------------------------------------------------------------
\* The bytes the schema parser was handed in this request.
Handed == Get(parsed.handed)
ParseSucceeded == HasBody /\ parsed.outcome = "ok"

\* C11: for every successful parse_and_validate_spdx call, package_count is
\* the number of package entries of the document parsed in that call (zero
\* for an empty list); it is determined by this request's body alone,
\* whatever requests came before.
C11_PackageCountIsLength ==
    ParseSucceeded =>
        /\ parsed.package_count = Len(parsed.document.packages)
        /\ parsed.document.packages = Handed.v.pkgs
        /\ parsed.package_count = Len(Handed.v.pkgs)
        /\ parsed = ParseAndValidateSpdx(Raw)

\* An enveloped document with the longest package list: the envelope itself
\* declares no packages.
C11_Witness ==
    /\ ParseSucceeded
    /\ Raw.kind = "json" /\ HasSbomMapping(Raw.v) /\ Raw.v.pkgs = <<>>
    /\ parsed.package_count = MaxPkgs
    /\ Get(response).package_count = MaxPkgs

\* The four top-level fields the claim names.
RequiredTopLevel == {"spdxVersion", "SPDXID", "documentNamespace", "name"}
MissingRequired(v) == v.t = "obj" /\ RequiredTopLevel \ v.fields # {}
JsonBody == HasBody /\ Raw.kind = "json"
\* The body rejected as a schema violation: 422 with an error string and a
\* list of messages, nothing queued.
SchemaRejected ==
    /\ parsed.outcome = "SpdxValidationError"
    /\ Get(response).status = 422
    /\ Get(response).detail # <<>>
    /\ Get(response).detail[1] \in {MSG_SPDX, MSG_PARSE}
    /\ Get(response).messages = parsed.messages
    /\ queued = <<>>
    /\ Count(calls, "queue_sbom") = 0

\* C12 as stated: whenever the body is a document missing one of the four
\* fields, or an envelope of such a document, the request is rejected 422.
C12_Original ==
    /\ (JsonBody /\ MissingRequired(Raw.v)) => SchemaRejected
    /\ (JsonBody /\ HasSbomMapping(Raw.v) /\ MissingRequired(Get(Raw.v.sbom))) => SchemaRejected

\* C12 amended: a document missing any of spdxVersion, SPDXID,
\* documentNamespace, name is rejected (SpdxValidationError, 422 with an
\* error string and a messages list, sink not invoked) when it is sent
\* enveloped, and when it is sent bare and has no top-level "sbom" member
\* holding a mapping. (Sent bare with such a member, the member is parsed in
\* its place.)
C12_MissingFieldIs422 ==
    /\ (JsonBody /\ ~HasSbomMapping(Raw.v) /\ MissingRequired(Raw.v)) => SchemaRejected
    /\ (JsonBody /\ HasSbomMapping(Raw.v) /\ MissingRequired(Get(Raw.v.sbom))) => SchemaRejected
    /\ (JsonBody /\ MissingRequired(Handed.v)) =>
          (Handed.style # "utf16" => Get(response).messages # {})

\* A bare document with everything but its name, and well-formed packages.
C12_Witness ==
    /\ JsonBody /\ Raw.style = "compact"
    /\ Raw.v = JObj(SpdxFields \ {"name"}, OkPkgs(MaxPkgs), None)
    /\ Get(response) = Response(422, <<MSG_SPDX>>, {"name"}, "", 0)

\* C13: every accepted submission is answered 202 with message "queued",
\* the repository claim of the token verified for this request, and the
\* package_count of the document parsed from this request's body; the sink
\* is handed that parse result and those claims and alters neither value.
Accepted == pc = "done" /\ IsSome(claims) /\ parsed.outcome = "ok"
AuthResponses ==
    {Err(401, <<MSG_401>>), Err(403, <<MSG_KEY>>), TokenExpiredResponse}
    \cup TokenInvalidResponses
AuthFailed == pc # "idle" /\ claims = None

\* C14: a request that fails authentication is answered 401 or 403 by the
\* verifier alone, before its body is read: the response is fixed while the
\* body is still unread and nothing has been parsed, so it is the same for
\* every body, and it carries no parser error detail.
C14_AuthFailureIgnoresBody ==
    /\ AuthFailed =>
          /\ pc = "done"
          /\ Get(response) \in AuthResponses
          /\ body = None
          /\ parsed = NoParse
          /\ calls = <<"verify_github_oidc_token">>
          /\ queued = <<>>
    /\ (pc = "done" /\ Get(response).status \in {401, 403}) =>
          /\ AuthFailed
          /\ Get(response).messages = {}
          /\ Get(response).detail[1] \notin {MSG_SPDX, MSG_PARSE}
    /\ (pc = "done" /\ IsSome(body)) => Get(response).status \notin {401, 403}

\* A token that fails at jwt.decode.
C14_Witness ==
    /\ AuthFailed /\ pc = "done"
    /\ BearerJwt /\ decoded /\ exc = "InvalidSignatureError"
    /\ Get(response) = Err(403, <<MSG_INVALID, "InvalidSignatureError">>)
    /\ body = None

\* ---------------------------------------------------------------------
\* The key-set cache
\* ---------------------------------------------------------------------
UrlEntries(cache) == {e \in cache : e.key = GITHUB_JWKS_URL}
InsertedAt(e) == e.expires - JWKS_CACHE_TTL_SECONDS
Age(e, t)     == t - InsertedAt(e)
\* The same entry: same key, same insertion time, same client object.
SameEntry(a, b) ==
    a.key = b.key /\ a.expires = b.expires /\ a.client.created = b.client.created
\* This step is a verification that got past the header check, and so
\* called _get_jwks_client.
LookupStep == pc = "idle" /\ pc' # "idle" /\ ~HeaderRejected(authorization')

\* C15: a lookup returns the cached entry iff its age is below
\* JWKS_CACHE_TTL_SECONDS, and otherwise treats it as absent and stores a
\* replacement stamped with the current time; whatever the verification
\* that made the lookup then does (key-resolution failure, signature
\* mismatch, claim failure, expiry, success), the entry stays; and no other
\* step touches the cache.
C15_Step ==
    LET young == {e \in UrlEntries(jwks_cache) : Age(e, now) < JWKS_CACHE_TTL_SECONDS}
    IN  IF LookupStep
        THEN IF young # {}
             THEN /\ \A e \in young : \E e2 \in jwks_cache' : SameEntry(e, e2)
                  /\ Cardinality(jwks_cache') = Cardinality(jwks_cache)
             ELSE /\ \E e2 \in jwks_cache' :
                        /\ e2.key = GITHUB_JWKS_URL
                        /\ InsertedAt(e2) = now
                        /\ e2.client.created = now
                  /\ \A e \in UrlEntries(jwks_cache) :
                        ~\E e2 \in jwks_cache' : SameEntry(e, e2)
        ELSE \A e \in jwks_cache : \E e2 \in jwks_cache' : SameEntry(e, e2)
C15_StalenessByAgeOnly == [][C15_Step]_vars

\* An entry inserted one clock step before is used by a verification that
\* then fails on the signature, and is still there.
C15_Witness ==
    /\ pc = "done" /\ verified_at = 2 * TickSeconds
    /\ exc = "InvalidSignatureError"
    /\ \E e \in UrlEntries(jwks_cache) :
          InsertedAt(e) = TickSeconds /\ e.client.created = TickSeconds

\* C16: an entry is created by the first verification that reaches key
\* resolution after a cold start or after the TTL has run out; every later
\* one within the TTL uses that same entry and creates none; a refresh
\* replaces the entry (the new one holds a new client with nothing of the
\* old one's key set); a request rejected on its header creates nothing;
\* and the cache never holds more than one entry for the JWKS endpoint, nor
\* more than JWKS_CACHE_MAXSIZE entries.
C16_Step ==
    LET young == {e \in UrlEntries(jwks_cache) : Age(e, now) < JWKS_CACHE_TTL_SECONDS}
    IN  /\ Cardinality(UrlEntries(jwks_cache')) <= 1
        /\ Cardinality(jwks_cache') <= JWKS_CACHE_MAXSIZE
        /\ (LookupStep /\ young = {}) =>
              /\ Cardinality(UrlEntries(jwks_cache')) = 1
              /\ \A e2 \in UrlEntries(jwks_cache') :
                    /\ InsertedAt(e2) = now
                    /\ e2.client.created = now
                    /\ e2.client.fetched \in {0 - 1, now}
        /\ (LookupStep /\ young # {}) =>
              /\ Cardinality(UrlEntries(jwks_cache')) = 1
              /\ \A e \in young : \A e2 \in UrlEntries(jwks_cache') : SameEntry(e, e2)
        /\ ~LookupStep =>
              \A e \in jwks_cache : \E e2 \in jwks_cache' : SameEntry(e, e2)
        /\ (pc = "idle" /\ pc' # "idle" /\ ~LookupStep) => jwks_cache' = jwks_cache
C16_EntryLifecycle == [][C16_Step]_vars

\* A token accepted one clock step after the entry it used was created:
\* the entry is the one of the earlier attempt, its key set fetched anew.
C16_Witness ==
    /\ pc = "authed" /\ verified_at = TickSeconds
    /\ \E e \in UrlEntries(jwks_cache) :
          /\ InsertedAt(e) = 0 /\ e.client.created = 0
          /\ e.client.fetched = TickSeconds

\* C18: parse_and_validate_spdx either returns a ParsedSbom or raises
\* SpdxValidationError, for every byte string; so a request with a valid
\* token is answered 202 or a structured 422, never 500.
C18_ParseTotal ==
    HasBody =>
        /\ parsed.outcome \in {"ok", "SpdxValidationError"}
        /\ Get(response).status \in {202, 422}

\* C19: a header that begins with "Bearer " but whose token cannot be
\* decoded at all (empty, or malformed so that no key-ID can be read) is
\* rejected at key resolution with the key-resolution 403, before jwt.decode
\* is attempted; it never gets 401, TokenInvalid or TokenExpired.
BearerUndecodable ==
    pc # "idle" /\ authorization.present /\ authorization.scheme = BEARER_PREFIX
    /\ Tok.form \in {"empty", "garbage"}
C19_UndecodableIsKeyResolutionError ==
    BearerUndecodable =>
        /\ pc = "done"
        /\ IsKeyResolutionError
        /\ exc = "undecodable"
        /\ ~decoded
        /\ claims = None
        /\ Get(response).status # 401
        /\ ~IsTokenInvalid /\ ~IsTokenExpired
        /\ body = None

\* "Bearer " followed by nothing.
C19_Witness ==
    /\ BearerUndecodable
    /\ HeaderText(authorization) = BEARER_PREFIX
    /\ Tok = EmptyToken
    /\ response = Some(Err(403, <<MSG_KEY>>))

\* ---------------------------------------------------------------------
\* Concurrent cache misses
\* ---------------------------------------------------------------------
InVerifier(r) == inflight[r].pc \in {"lookup", "store", "resolve"}
Completed(r)  == inflight[r].pc = "done"
BothMissed    == \A r \in Requests : inflight[r].missed
\* What the verifier gives this request's header when it runs alone and
\* finds no usable entry.
Alone(r) ==
    VerifyGithubOidcToken(inflight[r].authorization, {}, inflight[r].at, inflight[r].fetch)

\* In every state: at most one entry for the endpoint, exactly one once a
\* request that missed has stored its client; when both requests missed,
\* each ends with the outcome it would have had alone; and a client object
\* that two requests hold is the one the cache holds.
C17_Inv ==
    /\ Cardinality(UrlEntries(jwks_cache)) <= 1
    /\ (\E r \in Requests : inflight[r].missed /\ inflight[r].pc \in {"resolve", "done"}) =>
          Cardinality(UrlEntries(jwks_cache)) = 1
    /\ \A r \in Requests : (BothMissed /\ Completed(r)) =>
          /\ inflight[r].claims = Alone(r).claims
          /\ inflight[r].response = Alone(r).response
    /\ \A r, q \in Requests :
          (r # q /\ inflight[r].pc = "resolve" /\ inflight[q].pc = "resolve"
           /\ inflight[r].client = inflight[q].client) =>
             \E e \in UrlEntries(jwks_cache) : e.client.owner = inflight[r].client

\* In every step: the write of a request that missed leaves its own client
\* as the only entry for the endpoint, whatever was stored before (the last
\* write wins); and a step of one request changes nothing of the other.
C17_Step ==
    /\ \A r \in Requests :
          (inflight[r].pc = "store" /\ inflight'[r].pc = "resolve") =>
             UrlEntries(jwks_cache') =
                {[key |-> GITHUB_JWKS_URL, client |-> OwnClient(r, now),
                  expires |-> now + JWKS_CACHE_TTL_SECONDS]}
    /\ \A r, q \in Requests :
          (r # q /\ inflight'[r] # inflight[r]) => inflight'[q] = inflight[q]

\* C17: concurrent verifications that miss the key-set cache each create
\* and store their own client, with no lock; under every interleaving the
\* last write wins, the cache holds exactly one entry for the endpoint,
\* every request that entered the verifier completes, and when both missed
\* each gets the outcome it would have got alone; requests share nothing
\* but the cache.
C17_ConcurrentMisses ==
    /\ []C17_Inv
    /\ [][C17_Step]_vars
    /\ \A r \in Requests : InVerifier(r) ~> Completed(r)

\* Both requests missed at the same instant and both stored; the first was
\* accepted, the second found the endpoint unreachable; the cache holds the
\* second's client.
C17_Witness ==
    /\ BothMissed /\ Completed(1) /\ Completed(2)
    /\ inflight[1].at = inflight[2].at
    /\ IsSome(inflight[1].claims)
    /\ inflight[2].response = Some(Err(403, <<MSG_KEY>>))
    /\ inflight[2].authorization.token = LongToken
    /\ \A e \in UrlEntries(jwks_cache) : e.client.owner = 2 /\ e.client.fetched = 0 - 1
    /\ clients[1].fetched = inflight[1].at

====
